---- MODULE Spec2Model ----
(***************************************************************************)
(* Speculative-preview-then-reconcile upload flow of the admin components. *)
(*                                                                         *)
(* Four embeddings of the flow are modelled, one per component source:     *)
(*   "IU_A"   ImageUpload   of src/src/components/Admin/ImageUpload.tsx    *)
(*   "IU_B"   ImageUpload   of src/unnamed/part_000 (lines 1-230)          *)
(*   "RTE_A"  RichTextEditor of src/src/components/Admin/RichTextEditor.tsx*)
(*   "RTE_B"  RichTextEditor of src/unnamed/part_000 (lines 233-880)       *)
(* A behaviour is the life of one mounted component instance: Init picks   *)
(* the embedding and the value the parent form passes in, every action is  *)
(* one event handler run to completion on the single UI thread (including  *)
(* the re-render and the effects the handler's state updates cause).       *)
(* The parent form feeds every onChange argument back as the value prop.   *)
(***************************************************************************)
EXTENDS Naturals, Integers, Sequences, FiniteSets, TLC

\* ------------------------------------------------------------- bounds
\* Number of files the user may select during one behaviour.
MaxUploads == 2
\* Number of nodes the rich-text document may hold.
MaxNodes == 3
\* Number of images the toolbar presets may style during one behaviour.
MaxStyled == 1

\* ------------------------------------------------------------- strings
FileIds == 1..MaxUploads

\* '' : the empty reference.
Empty == ""
\* data.url of a JSON body that has no url field.
Undefined == "undefined"
\* URL.createObjectURL(file): a fresh handle per call.
BlobUrl(i) == "blob:" \o ToString(i)
\* data.url of the response to the upload of file i: the store names each
\* uploaded file by a URL of its own.
ServerUrl(i) == "https://cdn/x/" \o ToString(i)
\* What the user may type in the URL input ('' : the input emptied).
TypedUrls == {"", "https://example.com/a.jpg", "https://example.com/b.jpg"}
\* The value prop the parent passes at construction.
InitialValues == {"", "https://cdn/x/old.png"}

\* s.startsWith('blob:')
StartsWithBlob(s) == \E i \in FileIds : s = BlobUrl(i)
\* JavaScript truthiness of a string-or-undefined: if (value), previewUrl && ...
Truthy(s) == s # Empty /\ s # Undefined

\* How a fetch(.../upload) settles: response.ok with a url, response.ok with
\* a body lacking url, a non-OK status, or a rejected request.
Outcomes == {"ok", "ok_nourl", "notok", "reject"}

ImageUploads == {"IU_A", "IU_B"}
RichTextEditors == {"RTE_A", "RTE_B"}

VARIABLES
    comp,            \* which embedding this instance is
    mounted,         \* FALSE once the component was unmounted
    value,           \* ImageUpload: the value prop = the parent's bound reference
    calls,           \* ImageUpload: arguments of the onChange calls of the last handler
    urlInput,        \* useState urlInput
    previewUrl,      \* useState previewUrl
    uploading,       \* useState uploading
    localImageFile,  \* useState localImageFile (IU_B): 0 = null, else the file
    uploads,         \* per selected file: the pending upload (onDrop's closure)
    nextFile,        \* number of files selected so far
    revoked,         \* per handle: number of URL.revokeObjectURL calls on it
    dom,             \* RichTextEditor: the children of editorRef.current, in order
    docValue,        \* RichTextEditor: the value prop = the parent's document content
    docCalls,        \* RichTextEditor: arguments of the onChange calls of the last handler
    uploadedImages,  \* useState uploadedImages (RTE_A): handle -> server URL, '' = no entry
    selectedImage,   \* useState selectedImage (RTE_B): Null, a child's position, or Detached
    since,           \* history: the latest user action while upload i was in flight
    last             \* history: the handler that ran last

iuVars == <<value, calls, urlInput, previewUrl, uploading, localImageFile>>
rteVars == <<dom, docValue, docCalls, uploadedImages, selectedImage>>
vars == <<comp, mounted, value, calls, urlInput, previewUrl, uploading,
          localImageFile, dom, docValue, docCalls, uploadedImages, selectedImage,
          uploads, nextFile, revoked, since, last>>

NoUpload == [st |-> "idle", value |-> Empty, alone |-> FALSE, out |-> "none"]
NoAction == [op |-> "none", arg |-> Empty]

\* Uploads whose request has not settled.
InFlight == {i \in FileIds : uploads[i].st = "inflight"}

\* ------------------------------------------------------------- helpers
\* URL.revokeObjectURL on each string of the sequence, in order; a string that
\* is no allocated handle is ignored by the browser.
RevokeAll(rv, urls) ==
    [i \in FileIds |->
        rv[i] + Cardinality({k \in 1..Len(urls) : urls[k] = BlobUrl(i)})]

\* The user acted (op, arg) while the uploads in flight were outstanding.
NoteUserAction(op, arg) ==
    [i \in FileIds |-> IF i \in InFlight THEN [op |-> op, arg |-> arg] ELSE since[i]]

\* useEffect(() => { if (value) { setPreviewUrl(value); setUrlInput(value) } }, [value])
\* run after a render in which the value prop changed from vOld to vNew;
\* cur is the state the handler left.
\* The effect left out: a new value prop never reaches previewUrl and urlInput.
ValueSyncEffectMissing(vOld, vNew, cur) == cur
ValueSyncEffect(vOld, vNew, cur) ==
    IF vNew # vOld /\ Truthy(vNew) THEN vNew ELSE cur

\* useEffect(() => () => { if (previewUrl && previewUrl.startsWith('blob:'))
\*     URL.revokeObjectURL(previewUrl) }, [previewUrl]):
\* the cleanup of the render that showed pOld runs when previewUrl becomes pNew.
\* The cleanup left out: nothing is revoked when previewUrl changes.
CleanupEffectMissing(pOld, pNew) == <<>>
CleanupEffect(pOld, pNew) ==
    IF pNew # pOld /\ Truthy(pOld) /\ StartsWithBlob(pOld) THEN <<pOld>> ELSE <<>>

\* The cleanup of the last render's effect, run when the component is discarded.
\* The teardown left out: nothing is revoked when the component is discarded.
UnmountCleanupMissing(p) == <<>>
UnmountCleanup(p) ==
    IF Truthy(p) /\ StartsWithBlob(p) THEN <<p>> ELSE <<>>

\* One handler of a mounted ImageUpload run to completion: the handler set
\* previewUrl to p, urlInput to u, localImageFile to f, uploading to up, called
\* onChange with each element of cs and URL.revokeObjectURL with each of rs;
\* then the parent re-renders with the new value and the effects run.
\* After unmount the setters do nothing and no effect runs.
Commit(p, u, f, up, cs, rs) ==
    LET v1 == IF cs = <<>> THEN value ELSE cs[Len(cs)]
        p2 == ValueSyncEffect(value, v1, p)
        u2 == ValueSyncEffect(value, v1, u)
    IN  /\ value' = v1
        /\ calls' = cs
        /\ IF mounted
           THEN /\ previewUrl' = p2
                /\ urlInput' = u2
                /\ localImageFile' = f
                /\ uploading' = up
                /\ revoked' = RevokeAll(revoked,
                                rs \o CleanupEffect(previewUrl, p) \o CleanupEffect(p, p2))
           ELSE /\ UNCHANGED <<previewUrl, urlInput, localImageFile, uploading>>
                /\ revoked' = RevokeAll(revoked, rs)

\* ------------------------------------------------------------- ImageUpload
\* onDrop up to its await: the user selected file number nextFile + 1.
OnDrop ==
    /\ comp \in ImageUploads
    /\ mounted
    /\ nextFile < MaxUploads
    /\ LET i == nextFile + 1
           blobUrl == BlobUrl(i)
       IN  /\ nextFile' = i
           /\ uploads' = [uploads EXCEPT ![i] =
                            [st |-> "inflight", value |-> value,
                             alone |-> InFlight = {}, out |-> "none"]]
           /\ since' = [NoteUserAction("drop", Empty) EXCEPT ![i] = NoAction]
           /\ last' = [op |-> "drop", id |-> i, out |-> "none", pre |-> <<>>]
           /\ IF comp = "IU_A"
              THEN Commit(blobUrl, urlInput, localImageFile, TRUE, <<>>, <<>>)
              ELSE Commit(blobUrl, urlInput, i, TRUE, <<blobUrl>>, <<>>)
    /\ UNCHANGED <<comp, mounted>>
    /\ UNCHANGED rteVars

\* onDrop after its await, ImageUpload.tsx: the request of upload i settled.
SettleA(i, out, s) ==
    LET blobUrl == BlobUrl(i)
        orig == uploads[i].value
    IN  CASE out \in {"ok", "ok_nourl"} ->
                Commit(s, s, localImageFile, FALSE, <<s>>, <<blobUrl>>)
          [] out = "notok" ->
                Commit(orig, urlInput, localImageFile, FALSE, <<>>, <<blobUrl, blobUrl>>)
          [] out = "reject" ->
                Commit(orig, urlInput, localImageFile, FALSE, <<>>, <<blobUrl>>)

\* onDrop after its await, part_000.
SettleB(i, out, s) ==
    LET blobUrl == BlobUrl(i)
    IN  CASE out \in {"ok", "ok_nourl"} ->
                Commit(previewUrl, urlInput, localImageFile, FALSE, <<s>>, <<>>)
          [] out = "notok" ->
                Commit(Empty, urlInput, 0, FALSE, <<Empty, Empty>>, <<blobUrl, blobUrl>>)
          [] out = "reject" ->
                Commit(Empty, urlInput, 0, FALSE, <<Empty>>, <<blobUrl>>)

\* The toast the continuation of a settled upload showed.
Toast(out) ==
    CASE out \in {"ok", "ok_nourl"} -> "success"
      [] out \in {"notok", "reject"} -> "error"
      [] OTHER -> "none"

UploadSettles ==
    /\ comp \in ImageUploads
    /\ \E i \in InFlight, out \in Outcomes :
         LET s == IF out = "ok_nourl" THEN Undefined ELSE ServerUrl(i)
         IN  /\ uploads' = [uploads EXCEPT ![i].st = "settled", ![i].out = out]
             /\ last' = [op |-> "settle", id |-> i, out |-> out, pre |-> <<>>]
             /\ IF comp = "IU_A" THEN SettleA(i, out, s) ELSE SettleB(i, out, s)
    /\ UNCHANGED <<comp, mounted, nextFile, since>>
    /\ UNCHANGED rteVars

\* handleUrlChange(url): the user edited the URL input.
HandleUrlChange ==
    /\ comp \in ImageUploads
    /\ mounted
    /\ \E url \in TypedUrls :
         /\ since' = NoteUserAction("type", url)
         /\ last' = [op |-> "type", id |-> 0, out |-> url, pre |-> <<>>]
         /\ IF comp = "IU_B" /\ localImageFile # 0
            THEN Commit(url, url, 0, uploading, <<url>>, <<previewUrl>>)
            ELSE Commit(url, url, localImageFile, uploading, <<url>>, <<>>)
    /\ UNCHANGED <<comp, mounted, uploads, nextFile>>
    /\ UNCHANGED rteVars

\* clearImage() without its setUrlInput(''): the input keeps its text.
ClearImageKeepsInput ==
    /\ comp \in ImageUploads
    /\ mounted
    /\ Truthy(previewUrl) \/ (comp = "IU_A" /\ Truthy(value))
    /\ since' = NoteUserAction("clear", Empty)
    /\ last' = [op |-> "clear", id |-> 0, out |-> "none", pre |-> <<>>]
    /\ Commit(Empty, urlInput, IF comp = "IU_B" THEN 0 ELSE localImageFile, uploading,
              <<Empty>>,
              IF Truthy(previewUrl) /\ StartsWithBlob(previewUrl)
              THEN <<previewUrl>> ELSE <<>>)
    /\ UNCHANGED <<comp, mounted, uploads, nextFile>>
    /\ UNCHANGED rteVars

\* clearImage(): the X / "Remover Imagem" button, rendered while previewUrl
\* (ImageUpload.tsx: previewUrl || value) is truthy.
ClearImage ==
    /\ comp \in ImageUploads
    /\ mounted
    /\ Truthy(previewUrl) \/ (comp = "IU_A" /\ Truthy(value))
    /\ since' = NoteUserAction("clear", Empty)
    /\ last' = [op |-> "clear", id |-> 0, out |-> "none", pre |-> <<>>]
    /\ Commit(Empty, Empty, IF comp = "IU_B" THEN 0 ELSE localImageFile, uploading,
              <<Empty>>,
              IF Truthy(previewUrl) /\ StartsWithBlob(previewUrl)
              THEN <<previewUrl>> ELSE <<>>)
    /\ UNCHANGED <<comp, mounted, uploads, nextFile>>
    /\ UNCHANGED rteVars

\* The component is discarded: the cleanup of the last render's effect runs.
Unmount ==
    /\ comp \in ImageUploads
    /\ mounted
    /\ mounted' = FALSE
    /\ revoked' = RevokeAll(revoked, UnmountCleanup(previewUrl))
    /\ since' = NoteUserAction("unmount", Empty)
    /\ last' = [op |-> "unmount", id |-> 0, out |-> "none", pre |-> <<>>]
    /\ calls' = <<>>
    /\ UNCHANGED <<comp, value, urlInput, previewUrl, uploading, localImageFile,
                   uploads, nextFile>>
    /\ UNCHANGED rteVars

\* ------------------------------------------------------------- RichTextEditor
\* apiClient.baseURL, which RichTextEditor.tsx prefixes to data.url.
ApiBase == "http://api"

\* A child node of the editor. src is '' for a node that is no image; size and
\* float are the presentation attributes the image controls set; sel is the
\* class image-selected; res is the attribute data-resizable; click tells
\* whether handleImageClick is attached as a listener (not part of the markup).
Node(tag, src, res, click) ==
    [tag |-> tag, src |-> src, size |-> "init", float |-> "", sel |-> FALSE,
     res |-> res, click |-> click]

\* Reading editorRef.current.innerHTML: the markup of the children, which
\* carries their attributes and not their listeners.
Serialize(d) ==
    [k \in 1..Len(d) |->
        [tag |-> d[k].tag, src |-> d[k].src, size |-> d[k].size,
         float |-> d[k].float, sel |-> d[k].sel, res |-> d[k].res]]

\* Assigning editorRef.current.innerHTML: new nodes, no listeners.
Parse(c) ==
    [k \in 1..Len(c) |->
        [tag |-> c[k].tag, src |-> c[k].src, size |-> c[k].size,
         float |-> c[k].float, sel |-> c[k].sel, res |-> c[k].res,
         click |-> FALSE]]

\* setupImageHandlers(): every img gets the click listener and data-resizable.
SetupImageHandlers(d) ==
    [k \in 1..Len(d) |->
        IF d[k].tag = "img" THEN [d[k] EXCEPT !.click = TRUE, !.res = TRUE] ELSE d[k]]

\* Number of times the string url occurs in the markup c.
Occurrences(c, url) == Cardinality({k \in 1..Len(c) : c[k].src = url})

\* content.replace(from, to) with a string pattern: the first occurrence only.
ReplaceFirst(c, from, to) ==
    LET hits == {k \in 1..Len(c) : c[k].src = from}
    IN  IF hits = {} THEN c
        ELSE LET k0 == CHOOSE k \in hits : \A j \in hits : k <= j
             IN  [c EXCEPT ![k0].src = to]

\* content.replace(new RegExp(from, 'g'), to): every occurrence.
ReplaceAll(c, from, to) ==
    [k \in 1..Len(c) |-> IF c[k].src = from THEN [c[k] EXCEPT !.src = to] ELSE c[k]]

\* uploadedImages.forEach((serverUrl, blobUrl) => content = content.replace(...)):
\* the keys are distinct handles and no server URL is a handle, so the order of
\* the entries does not matter.
ApplyUploadedImages(c, um) ==
    [k \in 1..Len(c) |->
        IF \E i \in FileIds : um[i] # Empty /\ c[k].src = BlobUrl(i)
        THEN [c[k] EXCEPT !.src = um[CHOOSE i \in FileIds : c[k].src = BlobUrl(i)]]
        ELSE c[k]]

\* querySelectorAll(`img[src="${blobUrl}"]`).forEach(img => img.remove())
RemoveImages(d, src) ==
    SelectSeq(d, LAMBDA n : ~(n.tag = "img" /\ n.src = src))

\* The node n placed after the first p children.
InsertAt(d, p, n) == SubSeq(d, 1, p) \o <<n>> \o SubSeq(d, p + 1, Len(d))

\* The keys of the uploadedImages map um, as the cleanup effect visits them.
MapKeys(um) ==
    LET ks == {i \in FileIds : um[i] # Empty}
        RECURSIVE Enum(_)
        Enum(S) == IF S = {} THEN <<>>
                   ELSE LET i == CHOOSE x \in S : \A y \in S : x <= y
                        IN  <<BlobUrl(i)>> \o Enum(S \ {i})
    IN  Enum(ks)

\* useState<HTMLImageElement | null>(null): no image is selected.
Null == 0

\* selectedImage holds an element that is no longer a child of the editor.
Detached == -1

\* The element selectedImage holds, after a node was placed behind the first
\* p children: the element is the same, its position may have moved.
AfterInsert(si, p) == IF si > p THEN si + 1 ELSE si

\* The element selectedImage holds, after the children at the positions gone
\* were removed from the document.
AfterRemove(si, gone) ==
    CASE si \in gone -> Detached
      [] si > 0 -> si - Cardinality({k \in gone : k < si})
      [] OTHER -> si

\* The element selectedImage holds, after innerHTML was assigned: every child
\* is a new element.
AfterRewrite(si) == IF si = Null THEN Null ELSE Detached

\* The positions of the img children of d whose src is src.
ImagesWith(d, src) == {k \in 1..Len(d) : d[k].tag = "img" /\ d[k].src = src}

\* handleInput(): the content handed to onChange for the document d.
HandleInput(d) ==
    IF comp = "RTE_A" THEN ApplyUploadedImages(Serialize(d), uploadedImages)
    ELSE Serialize(d)

\* The MutationObserver of part_000 runs setupImageHandlers after a handler
\* changed the children.
Observed(d) == IF comp = "RTE_B" THEN SetupImageHandlers(d) ELSE d

\* One handler of a mounted RichTextEditor run to completion: it left the
\* children d, called onChange with each element of cs and
\* URL.revokeObjectURL with each of rs. The parent re-renders with the new
\* value, and the value effect rewrites innerHTML when the two differ.
RteCommit(d, si, cs, rs) ==
    LET v1 == IF cs = <<>> THEN docValue ELSE cs[Len(cs)]
        d1 == Observed(d)
        rewrite == v1 # docValue /\ v1 # Serialize(d1)
    IN  /\ docValue' = v1
        /\ docCalls' = cs
        /\ dom' = IF rewrite THEN Observed(Parse(v1)) ELSE d1
        /\ selectedImage' = IF rewrite THEN AfterRewrite(si) ELSE si
        /\ revoked' = RevokeAll(revoked, rs)

\* handleImageUpload's input.onchange up to its await: the user picked file
\* number nextFile + 1; p is the caret (-1: no range, part_000 appends).
HandleImageUpload ==
    /\ comp \in RichTextEditors
    /\ mounted
    /\ nextFile < MaxUploads
    /\ \E p \in -1..Len(dom) :
         LET i == nextFile + 1
             blobUrl == BlobUrl(i)
             d == CASE comp = "RTE_A" -> InsertAt(dom, p, Node("img", blobUrl, FALSE, FALSE))
                    [] comp = "RTE_B" /\ p >= 0 ->
                          InsertAt(dom, p, Node("img", blobUrl, TRUE, TRUE))
                    [] OTHER ->
                          dom \o <<Node("br", Empty, FALSE, FALSE),
                                   Node("img", blobUrl, TRUE, TRUE)>>
         IN  /\ comp = "RTE_A" => p >= 0
             /\ Len(d) <= MaxNodes
             /\ nextFile' = i
             /\ uploads' = [uploads EXCEPT ![i] =
                              [st |-> "inflight", value |-> Empty,
                               alone |-> InFlight = {}, out |-> "none"]]
             /\ since' = [NoteUserAction("drop", Empty) EXCEPT ![i] = NoAction]
             /\ last' = [op |-> "drop", id |-> i, out |-> "none", pre |-> <<>>]
             /\ RteCommit(d, IF p >= 0 THEN AfterInsert(selectedImage, p) ELSE selectedImage,
                          <<HandleInput(d)>>, <<>>)
    /\ UNCHANGED <<comp, mounted, uploadedImages>>
    /\ UNCHANGED iuVars

\* input.onchange after its await, RichTextEditor.tsx.
RteSettleA(i, out, s) ==
    LET blobUrl == BlobUrl(i)
        um == [uploadedImages EXCEPT ![i] = ApiBase \o s]
    IN  CASE out \in {"ok", "ok_nourl"} ->
                IF mounted
                THEN /\ uploadedImages' = um
                     /\ RteCommit(dom, selectedImage, <<>>, MapKeys(um))
                ELSE /\ UNCHANGED <<dom, docValue, uploadedImages, selectedImage, revoked>>
                     /\ docCalls' = <<>>
          [] out = "notok" ->
                /\ UNCHANGED uploadedImages
                /\ IF mounted
                   THEN RteCommit(RemoveImages(dom, blobUrl),
                                  AfterRemove(selectedImage, ImagesWith(dom, blobUrl)),
                                  <<>>, <<blobUrl>>)
                   ELSE /\ UNCHANGED <<dom, docValue, selectedImage>>
                        /\ docCalls' = <<>>
                        /\ revoked' = RevokeAll(revoked, <<blobUrl>>)
          [] out = "reject" ->
                /\ UNCHANGED <<dom, docValue, uploadedImages, selectedImage, revoked>>
                /\ docCalls' = <<>>

\* input.onchange after its await, part_000.
RteSettleB(i, out, s) ==
    LET blobUrl == BlobUrl(i)
        updatedContent == ReplaceFirst(Serialize(dom), blobUrl, s)
        removed == RemoveImages(dom, blobUrl)
    IN  /\ UNCHANGED uploadedImages
        /\ CASE out \in {"ok", "ok_nourl"} /\ mounted ->
                  RteCommit(Parse(updatedContent), AfterRewrite(selectedImage),
                            <<updatedContent>>, <<blobUrl>>)
             [] out = "notok" /\ mounted ->
                  RteCommit(removed, AfterRemove(selectedImage, ImagesWith(dom, blobUrl)),
                            <<HandleInput(removed)>>, <<blobUrl>>)
             [] out \in {"ok", "ok_nourl", "notok"} /\ ~mounted ->
                  /\ UNCHANGED <<dom, docValue, selectedImage>>
                  /\ docCalls' = <<>>
                  /\ revoked' = RevokeAll(revoked, <<blobUrl>>)
             [] OTHER ->
                  /\ UNCHANGED <<dom, docValue, selectedImage, revoked>>
                  /\ docCalls' = <<>>

RteUploadSettles ==
    /\ comp \in RichTextEditors
    /\ \E i \in InFlight, out \in Outcomes :
         LET s == IF out = "ok_nourl" THEN Undefined ELSE ServerUrl(i)
         IN  /\ uploads' = [uploads EXCEPT ![i].st = "settled", ![i].out = out]
             /\ last' = [op |-> "settle", id |-> i, out |-> out, pre |-> Serialize(dom)]
             /\ IF comp = "RTE_A" THEN RteSettleA(i, out, s) ELSE RteSettleB(i, out, s)
    /\ UNCHANGED <<comp, mounted, nextFile, since>>
    /\ UNCHANGED iuVars

\* The user edits the contenteditable document (onInput -> handleInput):
\* pastes a copy of image k after it, deletes node k, or types a paragraph.
UserEdit ==
    /\ comp \in RichTextEditors
    /\ mounted
    /\ \E kind \in {"paste", "delete", "type"}, k \in 1..MaxNodes :
         LET d == CASE kind = "paste" -> InsertAt(dom, k, [dom[k] EXCEPT !.click = FALSE])
                    [] kind = "delete" -> SubSeq(dom, 1, k - 1) \o SubSeq(dom, k + 1, Len(dom))
                    [] OTHER -> dom \o <<Node("p", Empty, FALSE, FALSE)>>
         IN  /\ kind \in {"paste", "delete"} => k <= Len(dom)
             /\ kind = "paste" => dom[k].tag = "img"
             /\ kind = "type" => k = 1
             /\ kind \in {"paste", "type"} => Len(dom) < MaxNodes
             /\ since' = NoteUserAction("edit", Empty)
             /\ last' = [op |-> "edit", id |-> 0, out |-> kind, pre |-> <<>>]
             /\ RteCommit(d, CASE kind = "paste" -> AfterInsert(selectedImage, k)
                               [] kind = "delete" -> AfterRemove(selectedImage, {k})
                               [] OTHER -> selectedImage,
                          <<HandleInput(d)>>, <<>>)
    /\ UNCHANGED <<comp, mounted, uploadedImages, uploads, nextFile>>
    /\ UNCHANGED iuVars

\* The editor is discarded: RichTextEditor.tsx revokes the keys of
\* uploadedImages, part_000 only disconnects its observer.
RteUnmount ==
    /\ comp \in RichTextEditors
    /\ mounted
    /\ mounted' = FALSE
    /\ revoked' = RevokeAll(revoked, IF comp = "RTE_A" THEN MapKeys(uploadedImages) ELSE <<>>)
    /\ since' = NoteUserAction("unmount", Empty)
    /\ last' = [op |-> "unmount", id |-> 0, out |-> "none", pre |-> <<>>]
    /\ docCalls' = <<>>
    /\ UNCHANGED <<comp, dom, docValue, uploadedImages, selectedImage, uploads, nextFile>>
    /\ UNCHANGED iuVars

\* sizes of resizeSelectedImage: preset -> style.maxWidth and style.width.
Sizes == [small |-> "150px", medium |-> "300px", large |-> "500px", full |-> "100%"]

\* The presets the toolbar buttons are pressed with.
SizePresets == {"small"}
AlignPresets == {"left"}

\* style.float that alignSelectedImage(alignment) sets.
Float(alignment) ==
    CASE alignment = "left" -> "left"
      [] alignment = "right" -> "right"
      [] OTHER -> "none"

\* handleImageClick without the loop that unmarks the other images.
MarkSelectedKeepsOthers(d, k) == [d EXCEPT ![k].sel = TRUE]

\* handleImageClick on the children d, child k clicked: image-selected is
\* removed from every img and added to the clicked one.
MarkSelected(d, k) ==
    [j \in 1..Len(d) |->
        IF d[j].tag = "img" THEN [d[j] EXCEPT !.sel = (j = k)] ELSE d[j]]

\* The click listener setupImageHandlers put on child k.
HandleImageClick ==
    /\ comp = "RTE_B"
    /\ mounted
    /\ \E k \in 1..Len(dom) :
         /\ dom[k].tag = "img"
         /\ dom[k].click
         /\ selectedImage' = k
         /\ dom' = MarkSelected(dom, k)
         /\ last' = [op |-> "click", id |-> k, out |-> "img", pre |-> Serialize(dom)]
    /\ since' = NoteUserAction("image", Empty)
    /\ docCalls' = <<>>
    /\ UNCHANGED <<comp, mounted, docValue, uploadedImages, uploads, nextFile, revoked>>
    /\ UNCHANGED iuVars

\* onClick of the editor <div>, the click's target being the div itself
\* (k = 0) or its child k, which is not an image.
EditorClick ==
    /\ comp = "RTE_B"
    /\ mounted
    /\ \E k \in 0..Len(dom) :
         /\ k > 0 => dom[k].tag # "img"
         /\ IF k = 0
            THEN /\ selectedImage' = Null
                 /\ dom' = [j \in 1..Len(dom) |->
                              IF dom[j].tag = "img" THEN [dom[j] EXCEPT !.sel = FALSE]
                              ELSE dom[j]]
            ELSE UNCHANGED <<selectedImage, dom>>
         /\ last' = [op |-> "click", id |-> 0,
                     out |-> IF k = 0 THEN "root" ELSE "child", pre |-> <<>>]
    /\ since' = NoteUserAction("image", Empty)
    /\ docCalls' = <<>>
    /\ UNCHANGED <<comp, mounted, docValue, uploadedImages, uploads, nextFile, revoked>>
    /\ UNCHANGED iuVars

\* The number of images of d that some preset has styled.
Styled(d) == Cardinality({k \in 1..Len(d) : d[k].size # "init" \/ d[k].float # ""})

\* A toolbar handler that styles selectedImage: the element gets style
\* (a field of a child, and its new content), then handleInput() runs. The
\* toolbar is rendered only while selectedImage is not null; an element that
\* left the document takes the style and the document stays as it is.
StyleSelectedImage(op, arg, field, style) ==
    LET d == IF selectedImage \in 1..Len(dom)
             THEN [dom EXCEPT ![selectedImage][field] = style] ELSE dom
    IN  /\ comp = "RTE_B"
        /\ mounted
        /\ selectedImage # Null
        /\ Styled(dom) < MaxStyled
        /\ since' = NoteUserAction("image", Empty)
        /\ last' = [op |-> op, id |-> 0, out |-> arg, pre |-> <<>>]
        /\ RteCommit(d, selectedImage, <<HandleInput(d)>>, <<>>)
        /\ UNCHANGED <<comp, mounted, uploadedImages, uploads, nextFile>>
        /\ UNCHANGED iuVars

ResizeSelectedImage ==
    \E size \in SizePresets : StyleSelectedImage("resize", size, "size", Sizes[size])

AlignSelectedImage ==
    \E alignment \in AlignPresets :
        StyleSelectedImage("align", alignment, "float", Float(alignment))

ClearImageFloat == StyleSelectedImage("unfloat", "none", "float", "none")

\* ------------------------------------------------------------- specification
\* The document the parent passes at construction: empty, or one image that
\* an earlier session of the same editor saved.
InitialDocs ==
    { <<>>,
      << [tag |-> "img", src |-> "https://cdn/x/old.png", size |-> "init",
          float |-> "", sel |-> FALSE, res |-> comp = "RTE_B"] >> }

Init ==
    /\ comp \in ImageUploads \cup RichTextEditors
    /\ mounted = TRUE
    /\ IF comp \in ImageUploads
       THEN /\ value \in InitialValues
            /\ docValue = <<>>
       ELSE /\ value = Empty
            /\ docValue \in InitialDocs
    /\ calls = <<>>
    /\ urlInput = value
    /\ previewUrl = value
    /\ uploading = FALSE
    /\ localImageFile = 0
    /\ dom = Observed(Parse(docValue))
    /\ docCalls = <<>>
    /\ uploadedImages = [i \in FileIds |-> Empty]
    /\ selectedImage = Null
    /\ uploads = [i \in FileIds |-> NoUpload]
    /\ nextFile = 0
    /\ revoked = [i \in FileIds |-> 0]
    /\ since = [i \in FileIds |-> NoAction]
    /\ last = [op |-> "init", id |-> 0, out |-> "none", pre |-> <<>>]

Next ==
    \/ OnDrop
    \/ UploadSettles
    \/ HandleUrlChange
    \/ ClearImage
    \/ Unmount
    \/ HandleImageUpload
    \/ RteUploadSettles
    \/ UserEdit
    \/ RteUnmount

Spec == Init /\ [][Next]_vars

\* part_000's editor with its image controls: images are inserted and
\* uploaded, clicked, and styled from the toolbar. Typing, pasting and
\* deleting are exercised under Spec.
InitImageControls == Init /\ comp = "RTE_B"

NextImageControls ==
    \/ HandleImageUpload
    \/ RteUploadSettles
    \/ RteUnmount
    \/ HandleImageClick
    \/ EditorClick
    \/ ResizeSelectedImage
    \/ AlignSelectedImage
    \/ ClearImageFloat

SpecImageControls == InitImageControls /\ [][NextImageControls]_vars

TypeOK ==
    /\ comp \in ImageUploads \cup RichTextEditors
    /\ mounted \in BOOLEAN
    /\ nextFile \in 0..MaxUploads
    /\ localImageFile \in 0..MaxUploads
    /\ uploading \in BOOLEAN
    /\ Len(dom) <= MaxNodes
    /\ selectedImage \in {Detached, Null} \cup (1..Len(dom))
    /\ \A i \in FileIds : uploads[i].st = "idle" <=> i > nextFile

\* ------------------------------------------------------------- claims
\* The upload whose continuation ran last settled as out, and since its file
\* was selected the user did nothing else and no other upload was in flight.
SettledUndisturbed(outs) ==
    /\ last.op = "settle"
    /\ last.out \in outs
    /\ uploads[last.id].alone
    /\ since[last.id].op = "none"

\* C1: a URL typed while an upload of the single-image widget is in flight
\* stays the bound reference when that upload later succeeds.
C1_LateSuccessKeepsTypedUrl ==
    (comp \in ImageUploads /\ last.op = "settle" /\ last.out = "ok"
        /\ since[last.id].op = "type" /\ since[last.id].arg # Empty)
    => value = since[last.id].arg

\* C2: after a file selection whose upload fails, with no other user action,
\* the bound reference is the pre-selection value and neither previewUrl,
\* urlInput nor the bound reference is the transient handle.
C2_FailureRestoresPreSelectionValue ==
    (comp \in ImageUploads /\ SettledUndisturbed({"notok", "reject"}))
    => /\ value = uploads[last.id].value
       /\ BlobUrl(last.id) \notin {previewUrl, urlInput, value}

C4_OnChangeNeverTransient ==
    /\ \A k \in 1..Len(calls) : ~StartsWithBlob(calls[k])
    /\ \A k \in 1..Len(docCalls) :
          \A i \in FileIds : Occurrences(docCalls[k], BlobUrl(i)) = 0

\* C5: the content the rich-text editor delivers to onChange after an upload
\* succeeded holds the durable URL at every position that held the transient
\* handle, and the handle nowhere.
C5_GlobalSubstitution ==
    (comp \in RichTextEditors /\ docCalls # <<>>)
    => \A i \in FileIds :
          uploads[i].out = "ok" =>
             /\ Occurrences(docCalls[Len(docCalls)], BlobUrl(i)) = 0
             /\ (last.op = "settle" /\ last.id = i)
                   => docCalls[Len(docCalls)] = ReplaceAll(last.pre, BlobUrl(i), ServerUrl(i))

\* C6: a success status whose body has no url field is handled as a failed
\* upload: handle revoked, bound reference reverted, error notification,
\* onChange never called with undefined.
C6_MissingUrlHandledAsFailure ==
    (comp \in ImageUploads /\ SettledUndisturbed({"ok_nourl"}))
    => /\ revoked[last.id] >= 1
       /\ value = uploads[last.id].value
       /\ Toast(last.out) = "error"
       /\ \A k \in 1..Len(calls) : calls[k] # Undefined

\* C7: after the failure handler of a rejected request ran in the rich-text
\* editor, no image node carries that upload's transient handle.
C7_NetworkErrorRemovesNodes ==
    (comp \in RichTextEditors /\ mounted /\ last.op = "settle" /\ last.out = "reject")
    => \A k \in 1..Len(dom) : dom[k].src # BlobUrl(last.id)

\* C8: URL.revokeObjectURL is called exactly once per handle of the
\* single-image widget: never twice, and once by the time the upload has
\* settled and the widget is gone.
C8_RevokedExactlyOnce ==
    comp \in ImageUploads
    => \A i \in FileIds :
          /\ revoked[i] <= 1
          /\ (uploads[i].st = "settled" /\ ~mounted) => revoked[i] = 1

\* C9: f2 selected while the upload of f1 was in flight: once both uploads
\* have succeeded, in either order, the bound reference and the preview are
\* the durable URL of f2.
C9_LaterSelectionWins ==
    \A i, j \in FileIds :
       (/\ comp \in ImageUploads
        /\ j = i + 1 /\ nextFile = j
        /\ last.op = "settle" /\ last.id \in {i, j}
        /\ uploads[i].out = "ok" /\ uploads[j].out = "ok"
        /\ ~uploads[j].alone
        /\ since[i].op = "drop" /\ since[j].op = "none")
       => value = ServerUrl(j) /\ previewUrl = ServerUrl(j)

\* C10: a URL typed, or a clear, while an upload is in flight: when that
\* upload fails, the bound reference and the preview stay as the superseding
\* action set them.
C10_FailureKeepsSupersedingState ==
    (comp \in ImageUploads /\ mounted
        /\ last.op = "settle" /\ last.out \in {"notok", "reject"}
        /\ since[last.id].op \in {"type", "clear"})
    => value = since[last.id].arg /\ previewUrl = since[last.id].arg
\* C11: clearImage, in any state of the single-image widget, leaves the bound
\* reference, urlInput and previewUrl empty, and a transient handle that was
\* the preview has been revoked by it.
C11_ClearEmptiesAll ==
    [][(comp \in ImageUploads /\ last'.op = "clear")
        => /\ value' = Empty
           /\ urlInput' = Empty
           /\ previewUrl' = Empty
           /\ \A i \in FileIds :
                 previewUrl = BlobUrl(i) => revoked'[i] > revoked[i]]_vars

\* C11, witness: the image was cleared while its upload was in flight.
C11_Witness ==
    /\ comp \in ImageUploads
    /\ last.op = "clear"
    /\ \E i \in FileIds : uploads[i].st = "inflight" /\ revoked[i] >= 1
    /\ previewUrl = Empty

\* C12: handleUrlChange(u), in any state of the single-image widget, makes u
\* the bound reference, the preview and the input text, issues no upload
\* request, and a transient handle that was the preview has been revoked.
C12_TypedUrlBecomesReference ==
    [][(comp \in ImageUploads /\ last'.op = "type")
        => /\ value' = last'.out
           /\ previewUrl' = last'.out
           /\ urlInput' = last'.out
           /\ nextFile' = nextFile
           /\ uploads' = uploads
           /\ \A i \in FileIds :
                 previewUrl = BlobUrl(i) => revoked'[i] > revoked[i]]_vars

\* C12, witness: b.jpg typed over a pending preview; and a.jpg then b.jpg typed
\* with no request ever sent is the same state with nextFile = 0.
C12_Witness ==
    /\ comp = "IU_A"
    /\ last.op = "type"
    /\ value = "https://example.com/b.jpg"
    /\ \E i \in FileIds : uploads[i].st = "inflight" /\ revoked[i] >= 1

\* C13: while an upload of the single-image widget has not settled, the
\* uploading flag is true.
C13_UploadingWhileInFlight ==
    (comp \in ImageUploads /\ mounted /\ InFlight # {}) => uploading

\* C14: unmounting the single-image widget while previewUrl is a transient
\* handle revokes that handle during teardown.
C14_UnmountRevokesPreview ==
    [][(comp \in ImageUploads /\ mounted /\ ~mounted')
        => \A i \in FileIds :
              previewUrl = BlobUrl(i) => revoked'[i] = revoked[i] + 1]_vars

\* C14, witness: the widget was discarded with the upload of its preview
\* still in flight.
C14_Witness ==
    /\ comp \in ImageUploads
    /\ ~mounted
    /\ last.op = "unmount"
    /\ \E i \in FileIds :
          previewUrl = BlobUrl(i) /\ uploads[i].st = "inflight" /\ revoked[i] = 1
\* C15: once a handler of the rich-text editor that changed the document
\* content has returned (image insertion, substitution on success, removal on
\* failure, resize, alignment), it has called onChange and the last value it
\* delivered is the current document content.
C15_OnChangeFollowsContent ==
    (comp \in RichTextEditors /\ mounted
        /\ \/ last.op \in {"drop", "resize", "align", "unfloat"}
           \/ last.op = "settle" /\ Serialize(dom) # last.pre)
    => /\ docCalls # <<>>
       /\ docCalls[Len(docCalls)] = Serialize(dom)
       /\ docValue = Serialize(dom)

\* C16: right after a click on an image node, that node is selectedImage and
\* it is the only node of the document that carries image-selected.
C16_LastClickedIsSelected ==
    (comp = "RTE_B" /\ last.op = "click" /\ last.out = "img")
    => /\ selectedImage = last.id
       /\ \A j \in 1..Len(dom) : dom[j].sel <=> j = last.id

\* C16, witness: image B was clicked while another image A carried the marker.
C16_Witness ==
    /\ comp = "RTE_B"
    /\ last.op = "click"
    /\ last.out = "img"
    /\ dom[last.id].sel
    /\ \E j \in 1..Len(dom) : j # last.id /\ last.pre[j].sel /\ ~dom[j].sel

\* C17: right after a click inside the editor whose target is not an image
\* (the editor root or a non-image child), selectedImage is null and no image
\* carries image-selected.
C17_ClickOutsideClearsSelection ==
    (comp = "RTE_B" /\ last.op = "click" /\ last.out \in {"root", "child"})
    => /\ selectedImage = Null
       /\ \A j \in 1..Len(dom) : ~dom[j].sel

\* The upload of file i was in flight together with another one.
Overlapped(i) == ~uploads[i].alone \/ since[i].op = "drop"

\* The durable URL the editor uses for file i after a successful upload.
Durable(i) == IF comp = "RTE_A" THEN ApiBase \o ServerUrl(i) ELSE ServerUrl(i)

\* C18: when an upload that overlapped another one settles, the document is
\* the document before with only its own image reconciled: on success its
\* reference is its own durable URL, on failure its node is gone, and every
\* other node is as it was.
C18_IndependentReconciliation ==
    (comp \in RichTextEditors /\ mounted /\ last.op = "settle"
        /\ last.out \in {"ok", "notok", "reject"} /\ Overlapped(last.id))
    => IF last.out = "ok"
       THEN Serialize(dom) = ReplaceAll(last.pre, BlobUrl(last.id), Durable(last.id))
       ELSE Serialize(dom) = RemoveImages(last.pre, BlobUrl(last.id))

\* C19: once the editor is unmounted, the handle of every upload that has
\* settled has been revoked.
C19_SettledHandlesRevoked ==
    (comp \in RichTextEditors /\ ~mounted)
    => \A i \in FileIds : uploads[i].st = "settled" => revoked[i] >= 1

\* C20: whenever selectedImage is not null it is an image node that is a
\* child of the editor document.
C20_SelectedImageInDocument ==
    (comp = "RTE_B" /\ selectedImage # Null)
    => /\ selectedImage \in 1..Len(dom)
       /\ dom[selectedImage].tag = "img"
\* C21: an upload that settles after the component was unmounted does not
\* call the parent's onChange.
C21_NoOnChangeAfterUnmount ==
    (~mounted /\ last.op = "settle") => (calls = <<>> /\ docCalls = <<>>)
====
